---------------------------- MODULE Spec2Model ----------------------------
(***************************************************************************)
(* Model of folder-sync (src/src/main.py): the scan / copy / prune pass of *)
(* sync_folders and the control loop of main.                              *)
(*                                                                         *)
(* A directory tree is a function from relative paths (sequences of file   *)
(* names) to entries; a file name is a sequence of characters, so that     *)
(* fnmatch is computed character by character.  The root of a tree is the  *)
(* empty path; a tree whose domain lacks the empty path does not exist.    *)
(*                                                                         *)
(* Not modelled: symbolic links, permission bits (but for a file that no   *)
(* open() succeeds on), the character classes of fnmatch, the log file,    *)
(* argument and JSON parsing, a copy that fails after the last byte.       *)
(***************************************************************************)
EXTENDS Naturals, Sequences, FiniteSets

VARIABLES
    source,               \* the tree under source_folder
    replica,              \* the tree under replica_folder
    dry_run,              \* parameter of sync_folders
    exclude_patterns,     \* parameter of sync_folders
    pc,                   \* position of the control loop
    walk,                 \* directories os.walk has still to yield
    source_replica_pairs, \* the pending list built by the scan
    queued,               \* indices of pairs submitted and not yet started
    running,              \* indices of pairs a worker is copying
    log,                  \* log records of the current pass
    replica0,             \* the replica tree when the current pass began
    injected,             \* an operation of this pass was made to fail
    prev                  \* summary of the previous pass

vars == <<source, replica, dry_run, exclude_patterns, pc, walk,
          source_replica_pairs, queued, running, log, replica0, injected,
          prev>>

---------------------------------------------------------------------------
(* Bounds of the checked instances.                                        *)

\* Modification times of initial files range over 1..MaxMtime.
MaxMtime == 2

\* File names: "a" and "a.t".
NameA == <<"a">>
NameT == <<"a", ".", "t">>

\* Names that initial trees use for directories.
DirNames == {NameA}

\* The paths of the initial trees: two names, and two more in directory "a".
Universe ==
    {<<NameA>>, <<NameT>>, <<NameA, NameA>>, <<NameA, NameT>>}

\* Glob patterns a pass may be given: "*.t".
PatT == <<"*", ".", "t">>
ExcludeOptions == {{}, {PatT}}

\* File contents: sequences of bytes, two of the same size.
Contents == {<<1>>, <<2>>}

---------------------------------------------------------------------------
(* Paths and trees.                                                        *)

Root == <<>>

Parent(p) == SubSeq(p, 1, Len(p) - 1)

Last(p) == p[Len(p)]

IsPrefix(p, q) == Len(p) <= Len(q) /\ SubSeq(q, 1, Len(p)) = p

Dir == [kind |-> "dir"]

File(c, m) == [kind |-> "file", content |-> c, mtime |-> m]

\* A file that open() refuses (no permission, or locked by another process).
Locked(c, m) == [kind |-> "file", content |-> c, mtime |-> m, locked |-> TRUE]

Openable(e) == "locked" \notin DOMAIN e

Exists(fs, p) == p \in DOMAIN fs

IsDir(fs, p) == p \in DOMAIN fs /\ fs[p].kind = "dir"

IsFile(fs, p) == p \in DOMAIN fs /\ fs[p].kind = "file"

\* os.scandir(p): the names in directory p.
Listing(fs, p) == {q \in DOMAIN fs : Len(q) = Len(p) + 1 /\ Parent(q) = p}

Put(fs, p, e) == [q \in DOMAIN fs \cup {p} |-> IF q = p THEN e ELSE fs[q]]

Without(fs, gone) == [q \in DOMAIN fs \ gone |-> fs[q]]

Prefixes(p) == {SubSeq(p, 1, n) : n \in 0..Len(p)}

\* Every sequence that lists the set S once.
RECURSIVE Perms(_)
Perms(S) ==
    IF S = {} THEN {<<>>}
    ELSE UNION {{<<x>> \o s : s \in Perms(S \ {x})} : x \in S}

---------------------------------------------------------------------------
(* The pure functions of main.py.                                          *)

\* fnmatch.fnmatch(name, pat): "*" matches any run of characters, "?" one.
RECURSIVE fnmatch(_, _)
fnmatch(name, pat) ==
    IF pat = <<>> THEN name = <<>>
    ELSE IF Head(pat) = "*"
         THEN fnmatch(name, Tail(pat))
              \/ (name # <<>> /\ fnmatch(Tail(name), pat))
    ELSE /\ name # <<>>
         /\ (Head(pat) = "?" \/ Head(pat) = Head(name))
         /\ fnmatch(Tail(name), Tail(pat))

should_exclude(file_name, patterns) ==
    \E pattern \in patterns : fnmatch(file_name, pattern)

\* The value hash_file returns when the file cannot be opened and read.
None == [ok |-> FALSE, md5 |-> <<>>]

\* MD5 of the bytes of a file, taken as collision free on Contents; opening
\* a directory or a locked file raises, and the handler returns None.
hash_file(e) ==
    IF e.kind = "file" /\ Openable(e)
    THEN [ok |-> TRUE, md5 |-> e.content] ELSE None

st_size(e) == Len(e.content)

\* Mutant: the digests are not compared.
files_are_different_stat_only(source_file, replica_file) ==
    IF replica_file.kind = "file"
    THEN \/ st_size(source_file) # st_size(replica_file)
         \/ source_file.mtime > replica_file.mtime
    ELSE TRUE

\* Both entries exist.  A replica entry that is a directory has a size and
\* a time of the file system's choosing; whichever way the two stat checks
\* go, the digest of a directory is None and the result is that of the last
\* line.
files_are_different(source_file, replica_file) ==
    IF replica_file.kind = "file"
    THEN \/ st_size(source_file) # st_size(replica_file)
         \/ source_file.mtime > replica_file.mtime
         \/ hash_file(source_file) # hash_file(replica_file)
    ELSE hash_file(source_file) # hash_file(replica_file)

---------------------------------------------------------------------------
(* The file-system calls sync_folders makes.                               *)

\* os.makedirs(p) raises when a component of p is a file.
makedirs_raises(fs, p) == \E q \in Prefixes(p) : IsFile(fs, q)

makedirs(fs, p) ==
    [q \in DOMAIN fs \cup Prefixes(p) |-> IF q \in DOMAIN fs THEN fs[q] ELSE Dir]

\* shutil.copy2(src, dst) writes into dst when dst is a directory.
copy2_target(fs, p) == IF IsDir(fs, p) THEN Append(p, Last(p)) ELSE p

copy2_raises(src, fs, p) ==
    \/ ~IsFile(src, p)
    \/ ~Openable(src[p])
    \/ IsDir(fs, copy2_target(fs, p))
    \/ ~IsDir(fs, Parent(copy2_target(fs, p)))
    \/ /\ Exists(fs, copy2_target(fs, p))
       /\ ~Openable(fs[copy2_target(fs, p)])

\* Content and modification time are those of the source file.
copy2(src, fs, p) ==
    Put(fs, copy2_target(fs, p), File(src[p].content, src[p].mtime))

\* The time of a write made during a pass: later than every initial time.
Now == MaxMtime + 1

\* What shutil.copy2 can leave behind when it raises.  When the source or
\* the target cannot be opened nothing is written; when it fails later the
\* target may hold the first bytes of the source, written now.
copy2_failed(src, fs, p) ==
    {fs} \cup
    (IF copy2_raises(src, fs, p) THEN {}
     ELSE {Put(fs, copy2_target(fs, p), File(SubSeq(src[p].content, 1, n), Now)) :
              n \in 0..(Len(src[p].content) - 1)})

\* os.remove of each file of the set gone.
remove(fs, gone) == Without(fs, gone)

\* shutil.rmtree of each directory of the set gone.
rmtree(fs, gone) ==
    Without(fs, {q \in DOMAIN fs : \E d \in gone : IsPrefix(d, q)})

---------------------------------------------------------------------------
(* Log records: the message prefix of the logging call and its paths.      *)

Rec(msg, p) == [msg |-> msg, path |-> p]

Msgs(msg, paths) == {Rec(msg, p) : p \in paths}

ErrorDuringSync == "Error during synchronization"

\* The folders, as the first component of the full path hash_file logs.
source_folder == <<"S">>
replica_folder == <<"R">>

\* The pass that wrote these records ended in the except clause of main.
Raised(records) == \E r \in records : r.msg = ErrorDuringSync

---------------------------------------------------------------------------
(* Initial states: every pair of trees within the bounds.                  *)

Absent == [kind |-> "absent"]

\* The source files of the checked instances, and the replica files, which
\* may be stale copies: other bytes, an older or a newer time.
SourceFiles == {File(<<1>>, MaxMtime)}

ReplicaFiles == {File(c, m) : c \in Contents, m \in 1..MaxMtime}

Shapes(files) ==
    {a \in [Universe -> {Absent, Dir} \cup files] :
        \A p \in Universe :
            /\ a[p] = Dir => Last(p) \in DirNames
            /\ (Len(p) > 1 /\ a[p] # Absent) => a[Parent(p)] = Dir}

TreeOf(a) ==
    [p \in {Root} \cup {q \in Universe : a[q] # Absent} |->
        IF p = Root THEN Dir ELSE a[p]]

\* The tree of a folder that does not exist.
NoTree == [p \in {} |-> Dir]

Trees(files) == {TreeOf(a) : a \in Shapes(files)}

NoPass == [valid |-> FALSE]

Init ==
    /\ source \in Trees(SourceFiles) \cup {NoTree}
    /\ replica \in Trees(ReplicaFiles) \cup {NoTree}
    /\ dry_run \in BOOLEAN
    /\ exclude_patterns \in ExcludeOptions
    /\ pc = "start"
    /\ walk = <<>>
    /\ source_replica_pairs = <<>>
    /\ queued = {}
    /\ running = {}
    /\ log = {}
    /\ replica0 = replica
    /\ injected = FALSE
    /\ prev = NoPass

---------------------------------------------------------------------------
(* main: the control loop, and sync_folders step by step.                  *)

\* What the loop keeps of the pass that just ended (a history variable).
Summary ==
    [valid |-> TRUE, dry_run |-> dry_run, log |-> log, replica0 |-> replica0,
     replica |-> replica, injected |-> injected]

\* main 169-171 and sync_folders 61-68: the sleep returns (or the loop is
\* entered), sync_folders is called and makes sure the replica folder exists.
BeginPass ==
    /\ pc \in {"start", "sleeping"}
    /\ pc' = "scan"
    /\ replica' = IF ~Exists(replica, Root) /\ ~dry_run
                  THEN makedirs(replica, Root) ELSE replica
    /\ log' = IF Exists(replica, Root) THEN {}
              ELSE IF dry_run THEN {Rec("Would create replica folder", Root)}
              ELSE {Rec("Created replica folder", Root)}
    /\ walk' = IF IsDir(source, Root) THEN <<Root>> ELSE <<>>
    /\ source_replica_pairs' = <<>>
    /\ queued' = {}
    /\ running' = {}
    /\ replica0' = replica
    /\ injected' = FALSE
    /\ prev' = IF pc = "sleeping" THEN Summary ELSE prev
    /\ UNCHANGED <<source, dry_run, exclude_patterns>>

SubDirs(fs, p) == {q \in Listing(fs, p) : fs[q].kind = "dir"}

NonDirs(fs, p) == {q \in Listing(fs, p) : fs[q].kind # "dir"}

\* Mutant: the directory is made in a dry run too.
NeedsMkdir_ignores_dry_run(p) == ~Exists(replica, p)

\* Line 87: the replica directory is missing and has to be made.
NeedsMkdir(p) == ~Exists(replica, p) /\ ~dry_run

\* Mutant: a file the replica lacks is not copied.
NeedsCopy_only_existing(rep, q) ==
    Exists(rep, q) /\ files_are_different(source[q], rep[q])

\* Line 100: the file has to be copied.
NeedsCopy(rep, q) ==
    ~Exists(rep, q) \/ files_are_different(source[q], rep[q])

\* Mutant: the exclude patterns are not consulted.
RECURSIVE NewPairs_no_exclusion(_, _)
NewPairs_no_exclusion(order, rep) ==
    IF order = <<>> THEN <<>>
    ELSE IF NeedsCopy(rep, Head(order))
         THEN <<Head(order)>> \o NewPairs_no_exclusion(Tail(order), rep)
    ELSE NewPairs_no_exclusion(Tail(order), rep)

\* Lines 91-101: the pairs one directory adds to the pending list, in
\* listing order.
RECURSIVE NewPairs(_, _)
NewPairs(order, rep) ==
    IF order = <<>> THEN <<>>
    ELSE IF should_exclude(Last(Head(order)), exclude_patterns)
         THEN NewPairs(Tail(order), rep)
    ELSE IF NeedsCopy(rep, Head(order))
         THEN <<Head(order)>> \o NewPairs(Tail(order), rep)
    ELSE NewPairs(Tail(order), rep)

\* Lines 39-42 within line 52: what hash_file logs when the comparison of
\* source file f with its replica file gets as far as the digests.  (For a
\* replica entry that is a directory the two stat checks are the file
\* system's; no record of its digest is kept.)
HashErrors(rep, f) ==
    IF /\ IsFile(rep, f)
       /\ st_size(source[f]) = st_size(rep[f])
       /\ ~(source[f].mtime > rep[f].mtime)
    THEN (IF hash_file(source[f]) = None
          THEN {Rec("Error hashing file", <<source_folder>> \o f)} ELSE {})
         \cup (IF hash_file(rep[f]) = None
               THEN {Rec("Error hashing file", <<replica_folder>> \o f)}
               ELSE {})
    ELSE {}

\* Mutant: the walk yields every subdirectory twice.
ScanDir_yields_twice ==
    /\ pc = "scan"
    /\ walk # <<>>
    /\ LET p == Head(walk)
           mk == NeedsMkdir(p)
           rep == IF mk THEN makedirs(replica, p) ELSE replica
       IN  /\ ~(mk /\ makedirs_raises(replica, p))
           /\ replica' = rep
           /\ \E order \in Perms(NonDirs(source, p)),
                 dirs \in Perms(SubDirs(source, p)) :
                /\ source_replica_pairs' =
                       source_replica_pairs \o NewPairs(order, rep)
                /\ walk' = dirs \o dirs \o Tail(walk)
           /\ log' = log
                \cup (IF mk THEN {Rec("Created directory", p)} ELSE {})
                \cup Msgs("Excluding file",
                          {<<Last(q)>> : q \in
                              {f \in NonDirs(source, p) :
                                 should_exclude(Last(f), exclude_patterns)}})
                \cup UNION {HashErrors(rep, f) : f \in
                              {g \in NonDirs(source, p) :
                                 ~should_exclude(Last(g), exclude_patterns)}}
    /\ UNCHANGED <<source, dry_run, exclude_patterns, pc, queued, running,
                   replica0, injected, prev>>

\* Lines 83-101, one iteration of the walk of the source: the directory
\* Head(walk) is mirrored and its files are classified.
ScanDir ==
    /\ pc = "scan"
    /\ walk # <<>>
    /\ LET p == Head(walk)
           mk == NeedsMkdir(p)
           rep == IF mk THEN makedirs(replica, p) ELSE replica
       IN  /\ ~(mk /\ makedirs_raises(replica, p))
           /\ replica' = rep
           /\ \E order \in Perms(NonDirs(source, p)),
                 dirs \in Perms(SubDirs(source, p)) :
                /\ source_replica_pairs' =
                       source_replica_pairs \o NewPairs(order, rep)
                /\ walk' = dirs \o Tail(walk)
           /\ log' = log
                \cup (IF mk THEN {Rec("Created directory", p)} ELSE {})
                \cup Msgs("Excluding file",
                          {<<Last(q)>> : q \in
                              {f \in NonDirs(source, p) :
                                 should_exclude(Last(f), exclude_patterns)}})
                \cup UNION {HashErrors(rep, f) : f \in
                              {g \in NonDirs(source, p) :
                                 ~should_exclude(Last(g), exclude_patterns)}}
    /\ UNCHANGED <<source, dry_run, exclude_patterns, pc, queued, running,
                   replica0, injected, prev>>

\* Mutant: the exception of a pass ends the program.
ScanDirRaises_uncaught ==
    /\ pc = "scan"
    /\ walk # <<>>
    /\ NeedsMkdir(Head(walk))
    /\ makedirs_raises(replica, Head(walk))
    /\ pc' = "crashed"
    /\ UNCHANGED <<source, replica, dry_run, exclude_patterns, walk,
                   source_replica_pairs, queued, running, log, replica0,
                   injected, prev>>

\* Line 88 raises (a component of the directory is a file in the replica);
\* nothing in sync_folders catches it, main 172-175 logs it and sleeps.
ScanDirRaises ==
    /\ pc = "scan"
    /\ walk # <<>>
    /\ NeedsMkdir(Head(walk))
    /\ makedirs_raises(replica, Head(walk))
    /\ log' = log \cup {Rec(ErrorDuringSync, Head(walk))}
    /\ pc' = "sleeping"
    /\ walk' = <<>>
    /\ UNCHANGED <<source, replica, dry_run, exclude_patterns,
                   source_replica_pairs, queued, running, replica0,
                   injected, prev>>

\* Lines 105-106: the walk is over; executor.map submits every pair.
SubmitCopies ==
    /\ pc = "scan"
    /\ walk = <<>>
    /\ pc' = "copy"
    /\ queued' = 1..Len(source_replica_pairs)
    /\ UNCHANGED <<source, replica, dry_run, exclude_patterns, walk,
                   source_replica_pairs, running, log, replica0, injected,
                   prev>>

\* A worker of the pool takes a pair.
CopyStart(i) ==
    /\ pc = "copy"
    /\ i \in queued
    /\ queued' = queued \ {i}
    /\ running' = running \cup {i}
    /\ UNCHANGED <<source, replica, dry_run, exclude_patterns, pc, walk,
                   source_replica_pairs, log, replica0, injected, prev>>

\* Mutant: the arguments of shutil.copy2 are swapped.
CopyDone_reversed(i) ==
    /\ pc = "copy"
    /\ i \in running
    /\ running' = running \ {i}
    /\ LET p == source_replica_pairs[i]
       IN  IF dry_run
           THEN /\ log' = log \cup {Rec("Would copy/update file", p)}
                /\ source' = source
           ELSE /\ ~copy2_raises(replica, source, p)
                /\ source' = copy2(replica, source, p)
                /\ log' = log \cup {Rec("Copied/Updated file", p)}
    /\ UNCHANGED <<replica, dry_run, exclude_patterns, pc, walk,
                   source_replica_pairs, queued, replica0, injected, prev>>

\* Lines 71-79, copy_or_update_file, when shutil.copy2 returns (or dry_run).
CopyDone(i) ==
    /\ pc = "copy"
    /\ i \in running
    /\ running' = running \ {i}
    /\ LET p == source_replica_pairs[i]
       IN  IF dry_run
           THEN /\ log' = log \cup {Rec("Would copy/update file", p)}
                /\ replica' = replica
           ELSE /\ ~copy2_raises(source, replica, p)
                /\ replica' = copy2(source, replica, p)
                /\ log' = log \cup {Rec("Copied/Updated file", p)}
    /\ UNCHANGED <<source, dry_run, exclude_patterns, pc, walk,
                   source_replica_pairs, queued, replica0, injected, prev>>

\* Mutant: the worker does not catch; the exception leaves sync_folders.
CopyFails_uncaught(i) ==
    /\ pc = "copy"
    /\ i \in running
    /\ ~dry_run
    /\ pc' = "sleeping"
    /\ log' = log \cup {Rec(ErrorDuringSync, source_replica_pairs[i])}
    /\ UNCHANGED <<source, replica, dry_run, exclude_patterns, walk,
                   source_replica_pairs, queued, running, replica0,
                   injected, prev>>

\* Lines 76-77: shutil.copy2 raises, because of the replica's shape or
\* because the operation is made to fail (permission, lock, I/O error);
\* the worker logs the pair and returns.  The target is left as it was, or
\* partially written.
CopyFails(i) ==
    /\ pc = "copy"
    /\ i \in running
    /\ ~dry_run
    /\ running' = running \ {i}
    /\ injected' = (injected
                    \/ ~copy2_raises(source, replica, source_replica_pairs[i]))
    /\ replica' \in copy2_failed(source, replica, source_replica_pairs[i])
    /\ log' = log \cup {Rec("Failed to copy", source_replica_pairs[i])}
    /\ UNCHANGED <<source, dry_run, exclude_patterns, pc, walk,
                   source_replica_pairs, queued, replica0, prev>>

\* Mutant: the pool is left without waiting for its workers.
JoinPool_no_wait ==
    /\ pc = "copy"
    /\ pc' = "prune"
    /\ walk' = IF IsDir(replica, Root) THEN <<Root>> ELSE <<>>
    /\ UNCHANGED <<source, replica, dry_run, exclude_patterns,
                   source_replica_pairs, queued, running, log, replica0,
                   injected, prev>>

\* The with block of line 105 ends: shutdown(wait=True) has joined the
\* workers, and os.walk(replica_folder) of line 109 begins.
JoinPool ==
    /\ pc = "copy"
    /\ queued = {}
    /\ running = {}
    /\ pc' = "prune"
    /\ walk' = IF IsDir(replica, Root) THEN <<Root>> ELSE <<>>
    /\ UNCHANGED <<source, replica, dry_run, exclude_patterns,
                   source_replica_pairs, queued, running, log, replica0,
                   injected, prev>>

\* Mutant: a file whose source is excluded counts as an orphan.
OrphanFiles_or_excluded(p) ==
    {q \in NonDirs(replica, p) :
        ~Exists(source, q) \/ should_exclude(Last(q), exclude_patterns)}

\* Line 116: the files of a replica directory that the source lacks.
OrphanFiles(p) == {q \in NonDirs(replica, p) : ~Exists(source, q)}

\* Line 126: its directories that the source lacks.
OrphanDirs(p) == {q \in SubDirs(replica, p) : ~Exists(source, q)}

\* Lines 109-131, one iteration of the walk of the replica: the files, then
\* the directories, of Head(walk) that the source lacks are removed.  The
\* walk goes on into the directories that are still there.
PruneDir ==
    /\ pc = "prune"
    /\ walk # <<>>
    /\ LET p == Head(walk)
           rep == IF dry_run THEN replica
                  ELSE rmtree(remove(replica, OrphanFiles(p)), OrphanDirs(p))
       IN  /\ replica' = rep
           /\ log' = log
                \cup Msgs(IF dry_run THEN "Would remove file"
                          ELSE "Removed file", OrphanFiles(p))
                \cup Msgs(IF dry_run THEN "Would remove directory"
                          ELSE "Removed directory", OrphanDirs(p))
           /\ \E dirs \in Perms(SubDirs(rep, p)) : walk' = dirs \o Tail(walk)
    /\ UNCHANGED <<source, dry_run, exclude_patterns, pc,
                   source_replica_pairs, queued, running, replica0, injected,
                   prev>>

\* os.remove (line 118) or shutil.rmtree (line 128) is made to fail on the
\* entry v: the entries listed before it are gone, the exception leaves
\* sync_folders, main logs it and sleeps.
PruneDirRaises ==
    /\ pc = "prune"
    /\ walk # <<>>
    /\ ~dry_run
    /\ LET p == Head(walk)
       IN  \E v \in OrphanFiles(p) \cup OrphanDirs(p) :
           \E done \in SUBSET ((OrphanFiles(p) \cup OrphanDirs(p)) \ {v}) :
              /\ v \in OrphanFiles(p) => done \subseteq OrphanFiles(p)
              /\ v \in OrphanDirs(p) => OrphanFiles(p) \subseteq done
              /\ replica' = rmtree(remove(replica, done \cap OrphanFiles(p)),
                                   done \cap OrphanDirs(p))
              /\ log' = log
                   \cup Msgs("Removed file", done \cap OrphanFiles(p))
                   \cup Msgs("Removed directory", done \cap OrphanDirs(p))
                   \cup {Rec(ErrorDuringSync, v)}
    /\ injected' = TRUE
    /\ pc' = "sleeping"
    /\ walk' = <<>>
    /\ UNCHANGED <<source, dry_run, exclude_patterns, source_replica_pairs,
                   queued, running, replica0, prev>>

\* sync_folders returns and main sleeps (line 175).
EndPass ==
    /\ pc = "prune"
    /\ walk = <<>>
    /\ pc' = "sleeping"
    /\ UNCHANGED <<source, replica, dry_run, exclude_patterns, walk,
                   source_replica_pairs, queued, running, log, replica0,
                   injected, prev>>

\* The operator, having read the log of a dry run, stops the program while
\* it sleeps and starts it again without --dry-run.
GoLive ==
    /\ pc = "sleeping"
    /\ dry_run
    /\ dry_run' = FALSE
    /\ pc' = "start"
    /\ prev' = Summary
    /\ UNCHANGED <<source, replica, exclude_patterns, walk,
                   source_replica_pairs, queued, running, log, replica0,
                   injected>>

Pass ==
    \/ BeginPass
    \/ ScanDir
    \/ ScanDirRaises
    \/ SubmitCopies
    \/ \E i \in queued : CopyStart(i)
    \/ \E i \in running : CopyDone(i)
    \/ \E i \in running : CopyFails(i)
    \/ JoinPool
    \/ PruneDir
    \/ PruneDirRaises
    \/ EndPass

Next == Pass \/ GoLive

Spec == Init /\ [][Next]_vars

---------------------------------------------------------------------------
(* Vocabulary of the properties.                                           *)

\* The control loop sleeps: log, replica0 and replica are those of the pass
\* that just ended.
PassEnded == pc = "sleeping"

\* No copy failed and no exception left sync_folders.
NoFailure(records) ==
    \A r \in records : r.msg \notin {"Failed to copy", ErrorDuringSync}

Excluded(p) == should_exclude(Last(p), exclude_patterns)

\* The source files a pass has to mirror.
Wanted == {p \in DOMAIN source : IsFile(source, p) /\ ~Excluded(p)}

SourceDirs == {p \in DOMAIN source : IsDir(source, p)}

\* The (relative path, content) entries of a tree.
Entries(fs) == {<<p, fs[p].content>> : p \in {q \in DOMAIN fs : IsFile(fs, q)}}

EmptyOrMissing(fs) == DOMAIN fs \subseteq {Root}

Mirrored ==
    /\ \A p \in Wanted :
          IsFile(replica, p) /\ replica[p].content = source[p].content
    /\ \A p \in SourceDirs : IsDir(replica, p)

---------------------------------------------------------------------------
(* C1. Convergence: after one non-dry-run pass over an empty or missing    *)
(* replica in which nothing failed, the files of the replica, as (path,    *)
(* content) entries, are exactly the non-excluded files of the source, and *)
(* every source directory is a directory of the replica.                   *)
C1_Convergence ==
    (PassEnded /\ ~dry_run /\ EmptyOrMissing(replica0) /\ NoFailure(log))
        => /\ Entries(replica) = {<<p, source[p].content>> : p \in Wanted}
           /\ \A p \in SourceDirs : IsDir(replica, p)

\* A pass over a missing replica has copied a file of a subdirectory and has
\* skipped an excluded file.
C1_Witness ==
    /\ PassEnded /\ ~dry_run /\ replica0 = NoTree /\ NoFailure(log)
    /\ IsFile(replica, <<NameA, NameA>>)
    /\ IsFile(source, <<NameT>>) /\ Excluded(<<NameT>>)
    /\ ~Exists(replica, <<NameT>>)

(* C2. After a non-dry-run pass in which no operation was made to fail,    *)
(* whatever the replica held before (stale files, orphans, a file where    *)
(* the source has a directory or a directory where it has a file), every   *)
(* non-excluded source file is in the replica with the same content and    *)
(* every source directory is a directory of the replica.                   *)
C2_MirrorFromAnyReplica ==
    (PassEnded /\ ~dry_run /\ ~injected) => Mirrored


\* What a pass logs when it changes the replica.
Mutating ==
    {"Created replica folder", "Created directory", "Copied/Updated file",
     "Removed file", "Removed directory"}

(* C3. Idempotence: when a non-dry-run pass ended without failure, the     *)
(* next pass (nothing is made to fail in it either) has an empty pending   *)
(* list, logs no create, copy or remove, and leaves the replica as the     *)
(* first pass left it.                                                     *)
C3_Idempotence ==
    (PassEnded /\ ~dry_run /\ ~injected
       /\ prev.valid /\ ~prev.dry_run /\ NoFailure(prev.log))
        => /\ source_replica_pairs = <<>>
           /\ \A r \in log : r.msg \notin Mutating
           /\ replica = prev.replica

(* C4. Deletion: after a non-dry-run pass in which no operation was made   *)
(* to fail, a file the replica held before the pass at a path where the    *)
(* source has no entry is gone, and a directory the replica held where the *)
(* source has no directory is gone with everything that was below it.      *)
C4_Deletion ==
    (PassEnded /\ ~dry_run /\ ~injected)
        => \A p \in DOMAIN replica0 \ {Root} :
              /\ (IsFile(replica0, p) /\ ~Exists(source, p))
                    => ~Exists(replica, p)
              /\ (IsDir(replica0, p) /\ ~IsDir(source, p))
                    => /\ ~IsDir(replica, p)
                       /\ \A q \in DOMAIN replica0 :
                             (IsPrefix(p, q) /\ q # p) => ~Exists(replica, q)

C6_ExclusionPrecedence ==
    \A p \in DOMAIN source :
        (IsFile(source, p) /\ Excluded(p))
            => /\ \A i \in 1..Len(source_replica_pairs) :
                     source_replica_pairs[i] # p
               /\ Exists(replica, p) = Exists(replica0, p)
               /\ Exists(replica, p) => replica[p] = replica0[p]

\* A pass has copied a file and has left alone a stale replica file whose
\* source is excluded.
C6_Witness ==
    /\ PassEnded /\ ~dry_run
    /\ \E r \in log : r.msg = "Copied/Updated file"
    /\ \E p \in DOMAIN source :
          /\ IsFile(source, p) /\ Excluded(p)
          /\ IsFile(replica, p) /\ replica[p].content # source[p].content

(* C7. Dry-run non-mutation: no step of a dry-run pass changes the source  *)
(* or the replica.                                                         *)
C7_DryRunNonMutation ==
    [][dry_run => (replica' = replica /\ source' = source)]_vars

\* A dry-run pass ended with a copy and the removal of a directory intended.
C7_Witness ==
    /\ PassEnded /\ dry_run
    /\ \E r \in log : r.msg = "Would copy/update file"
    /\ \E r \in log : r.msg = "Would remove directory"

\* The decision a log record stands for: what is done, and to which path.
DecisionOf(r) ==
    CASE r.msg \in {"Would create replica folder", "Created replica folder"}
            -> <<"create folder", r.path>>
      [] r.msg \in {"Would create directory", "Created directory"}
            -> <<"create directory", r.path>>
      [] r.msg \in {"Would copy/update file", "Copied/Updated file"}
            -> <<"copy file", r.path>>
      [] r.msg \in {"Would remove file", "Removed file"}
            -> <<"remove file", r.path>>
      [] r.msg \in {"Would remove directory", "Removed directory"}
            -> <<"remove directory", r.path>>
      [] OTHER -> <<"none", r.path>>

Decisions(records) ==
    {DecisionOf(r) : r \in records} \ {<<"none", p>> : p \in {r.path : r \in records}}

(* C8. A dry-run pass logs the decisions of a real pass: when a real pass  *)
(* without failure follows a dry-run pass over the same trees, the         *)
(* decisions the two passes logged (create, copy, remove, each with its    *)
(* path) are the same set.                                                 *)
C8_DryRunLogsLikeReal ==
    (PassEnded /\ ~dry_run /\ ~injected /\ NoFailure(log)
       /\ IsDir(source, Root)
       /\ prev.valid /\ prev.dry_run /\ prev.replica0 = replica0)
        => Decisions(prev.log) = Decisions(log)

\* Every pair of the pending list has been attempted: it is logged as
\* failed, or as copied with the source's bytes where copy2 put them.
AllAttempted ==
    \A i \in 1..Len(source_replica_pairs) :
        LET p == source_replica_pairs[i]
        IN  \/ Rec("Failed to copy", p) \in log
            \/ /\ Rec("Copied/Updated file", p) \in log
               /\ IsFile(replica, copy2_target(replica, p))
               /\ replica[copy2_target(replica, p)].content = source[p].content

(* C9. Failure isolation: in a non-dry-run pass the copy phase is left     *)
(* only for the prune step, and only when every pending pair has been      *)
(* attempted; a failed copy is logged with its pair and ends nothing.      *)
C9_FailureIsolation ==
    [][(pc = "copy" /\ ~dry_run)
          => \/ pc' = "copy" /\ ~Raised(log')
             \/ pc' = "prune" /\ AllAttempted']_vars

\* The prune step begins after one copy failed and another succeeded.
C9_Witness ==
    /\ pc = "prune" /\ ~dry_run
    /\ \E r \in log : r.msg = "Failed to copy"
    /\ \E r \in log : r.msg = "Copied/Updated file"

\* The instances of the scheduler's check: no exclude pattern, and replica
\* files as new as the source's.
FairInit ==
    /\ Init
    /\ exclude_patterns = {}
    /\ \A p \in DOMAIN replica :
          IsFile(replica, p) => replica[p].mtime = MaxMtime

\* The scheduling of main: a step of the loop that can be taken is taken.
FairSpec == FairInit /\ [][Next]_vars /\ WF_vars(Pass)

(* C10. Scheduler: the loop sleeps and runs a pass again and again, for    *)
(* ever; an exception of a pass is logged and followed by the sleep; a     *)
(* pass begins only from the sleep (or the start), with no walk and no     *)
(* copy of an earlier pass under way.                                      *)
C10_Scheduler ==
    /\ []<>(pc = "sleeping")
    /\ []<>(pc = "scan")
    /\ [][(Raised(log') /\ ~Raised(log)) => pc' = "sleeping"]_vars
    /\ [][(pc' = "scan" /\ pc # "scan")
             => (pc \in {"start", "sleeping"} /\ walk = <<>>
                 /\ queued = {} /\ running = {})]_vars

\* A pass is under way after a pass that raised.
C10_Witness ==
    /\ pc = "copy"
    /\ prev.valid /\ Raised(prev.log)

(* C11, as claimed. When the source folder is missing at the start, no    *)
(* pass runs: the loop is never entered, and the replica stays what it was *)
(* at the start, nothing created and nothing removed.                      *)
C11_StartupHardStop ==
    ~Exists(source, Root)
        => (pc = "start" /\ prev = NoPass /\ replica = replica0)

(* C12, as claimed. When the removal of one orphan fails in a non-dry-run  *)
(* pass over an existing source, every orphan entry the replica still      *)
(* holds at the end of the pass is the entry whose removal failed, or lies *)
(* below it: all the others have been removed in the same pass.            *)
C12_PrunerIsolation ==
    (PassEnded /\ ~dry_run /\ injected /\ Raised(log) /\ IsDir(source, Root))
        => \A q \in DOMAIN replica \ {Root} :
              ~Exists(source, q)
                  => \E r \in log :
                        r.msg = ErrorDuringSync /\ IsPrefix(r.path, q)

\* The pair has been through copy_or_update_file.
Attempted(p) ==
    \E msg \in {"Copied/Updated file", "Failed to copy",
                 "Would copy/update file"} : Rec(msg, p) \in log

(* C13. Copy before prune: while the replica is walked for orphans no pair *)
(* is waiting for a worker and no worker is copying, and every pair of the *)
(* pending list has been attempted; a worker copies only in the copy phase.*)
C13_CopyBeforePrune ==
    /\ pc = "prune"
          => /\ queued = {} /\ running = {}
             /\ \A i \in 1..Len(source_replica_pairs) :
                   Attempted(source_replica_pairs[i])
    /\ running # {} => pc = "copy"

\* The prune step is about to remove an orphan after two pairs were
\* attempted, one of them copied.
C13_Witness ==
    /\ pc = "prune" /\ walk # <<>> /\ ~dry_run
    /\ Len(source_replica_pairs) >= 2
    /\ \E r \in log : r.msg = "Copied/Updated file"
    /\ \E q \in DOMAIN replica : ~Exists(source, q)

---------------------------------------------------------------------------
(* The comparator's instances: one file "a" on each side, over contents of *)
(* two sizes, every pair of times, readable or locked.                     *)

CmpContents == Contents \cup {<<1, 1>>}

CmpFiles ==
    {File(c, m) : c \in CmpContents, m \in 1..MaxMtime}
        \cup {Locked(c, m) : c \in CmpContents, m \in 1..MaxMtime}

OneFile(e) == [p \in {Root, <<NameA>>} |-> IF p = Root THEN Dir ELSE e]

CmpInit ==
    /\ source \in {OneFile(e) : e \in CmpFiles}
    /\ replica \in {OneFile(e) : e \in CmpFiles}
    /\ dry_run \in BOOLEAN
    /\ exclude_patterns = {}
    /\ pc = "start"
    /\ walk = <<>>
    /\ source_replica_pairs = <<>>
    /\ queued = {}
    /\ running = {}
    /\ log = {}
    /\ replica0 = replica
    /\ injected = FALSE
    /\ prev = NoPass

\* The steps of a pass over such trees: no makedirs and no removal can fail.
CmpNext ==
    \/ BeginPass
    \/ ScanDir
    \/ SubmitCopies
    \/ \E i \in queued : CopyStart(i)
    \/ \E i \in running : CopyDone(i)
    \/ \E i \in running : CopyFails(i)
    \/ JoinPool
    \/ PruneDir
    \/ EndPass
    \/ GoLive

CmpSpec == CmpInit /\ [][CmpNext]_vars

\* The path is on the pending list.
Pending(p) ==
    \E i \in 1..Len(source_replica_pairs) : source_replica_pairs[i] = p

\* The scan is over and no copy of the pass has written yet: replica0 is
\* the replica the scan compared the source with.
Scanned == pc = "copy"

C15_DigestFailureSurfaced ==
    Scanned
        => \A p \in DOMAIN source :
              (\/ Rec("Error hashing file", <<source_folder>> \o p) \in log
               \/ Rec("Error hashing file", <<replica_folder>> \o p) \in log)
                  => Pending(p)

(* C16. Disjoint work items: no path is twice on the pending list, and no *)
(* two pairs that wait for a worker or are being copied have the same      *)
(* file of the replica as the target of their copy.                        *)
C16_DisjointWorkItems ==
    /\ \A i, j \in 1..Len(source_replica_pairs) :
          i # j => source_replica_pairs[i] # source_replica_pairs[j]
    /\ \A i, j \in queued \cup running :
          i # j => copy2_target(replica, source_replica_pairs[i])
                      # copy2_target(replica, source_replica_pairs[j])

\* Two workers copy at the same time in a pass of three pairs.
C16_Witness ==
    /\ pc = "copy" /\ ~dry_run
    /\ Cardinality(running) >= 2
    /\ Len(source_replica_pairs) >= 3

\* The copy of the pair failed in the previous pass, a real one.
FailedBefore(p) ==
    prev.valid /\ ~prev.dry_run /\ Rec("Failed to copy", p) \in prev.log

\* A pair that waits for a worker or is being copied has not been through
\* copy_or_update_file in this pass.
NoRetryInPass ==
    \A i \in queued \cup running : ~Attempted(source_replica_pairs[i])

\* The pass after a failed copy has the pair on its pending list and has
\* attempted it.
RetriedNextPass ==
    (PassEnded /\ ~dry_run)
        => \A p \in DOMAIN source :
              FailedBefore(p) => (Pending(p) /\ Attempted(p))

(* C17, as claimed. Self-healing: a pair whose copy failed in a pass is    *)
(* not tried again in that pass; the next pass puts it on its pending list *)
(* and attempts it again; and when nothing is made to fail in that pass    *)
(* and the pair is copied, the replica file of the pair has the content of *)
(* the source file after the pass.                                         *)
C17_SelfHealing ==
    /\ NoRetryInPass
    /\ RetriedNextPass
    /\ (PassEnded /\ ~dry_run /\ ~injected)
          => \A p \in DOMAIN source :
                (FailedBefore(p) /\ Rec("Copied/Updated file", p) \in log)
                    => /\ IsFile(replica, p)
                       /\ replica[p].content = source[p].content

(* C18, as claimed. Directory before file: in a non-dry-run pass, from    *)
(* the moment a pair is on the pending list and as long as pairs are       *)
(* copied, the parent of the pair's replica path is a directory of the     *)
(* replica.                                                                *)
C18_DirectoryBeforeFile ==
    (~dry_run /\ pc \in {"scan", "copy"})
        => \A i \in 1..Len(source_replica_pairs) :
              IsDir(replica, Parent(source_replica_pairs[i]))

(* C19. The source is read-only: no step of any pass, dry run or not,     *)
(* ended or raised, changes the source tree.                               *)
C19_SourceReadOnly == [][source' = source]_vars

\* A pass that made a directory, copied a file and removed an orphan ended.
C19_Witness ==
    /\ PassEnded /\ ~dry_run
    /\ \E r \in log : r.msg = "Created directory"
    /\ \E r \in log : r.msg = "Copied/Updated file"
    /\ \E r \in log : r.msg = "Removed file"

\* The files the copies of this pass have written, seen from the prune
\* step: copy2 wrote into the entry that is a directory.
Written ==
    {copy2_target(replica, p) :
        p \in {q \in DOMAIN source : Rec("Copied/Updated file", q) \in log}}

\* Every entry a prune step removes has no source entry at its path.
OnlyOrphansRemoved ==
    [][pc = "prune"
          => \A q \in DOMAIN replica \ DOMAIN replica' : ~Exists(source, q)]_vars

(* C20, as claimed. The pruner never over-deletes: an entry a prune step   *)
(* removes, by itself or with the directory above it, has no source entry  *)
(* at its path and is not a file that a copy of the same pass has written. *)
C20_NoOverDelete ==
    [][pc = "prune"
          => \A q \in DOMAIN replica \ DOMAIN replica' :
                ~Exists(source, q) /\ q \notin Written]_vars

===========================================================================
